---- MODULE Spec2Model ----
(***************************************************************************)
(* Order lifecycle and payment reconciliation of the snack backend         *)
(* (backend/controllers/orderController.js).                               *)
(*                                                                         *)
(* The state is the order store, the per-user carts of the user store and  *)
(* the checkout sessions held by the payment gateway, together with the    *)
(* handler call that completed last: its request, what the stores and the  *)
(* gateway did during it, and its response.  Each handler is one action.   *)
(***************************************************************************)
EXTENDS Integers, Sequences, FiniteSets, TLC

VARIABLES
  orders,    \* the order store: the order documents, in the order of creation
  carts,     \* the user store: cartData of every user
  sessions,  \* the checkout sessions the payment gateway has created
  req,       \* the request of the last call
  fault,     \* whether the store and the gateway worked during the last call
  res        \* the response of the last call

vars == <<orders, carts, sessions, req, fault, res>>

(***************************************************************************)
(* Bounds of the model.                                                    *)
(***************************************************************************)
MaxOrders == 2
MaxItems == 2

Users == {"u1", "u2"}
NoUser == ""
Undefined == "undefined"

(***************************************************************************)
(* JavaScript values of a request body: numbers, numeric strings, other    *)
(* strings and undefined; Number() maps them to a number or to NaN.        *)
(***************************************************************************)
JsNum(n) == [k |-> "number", n |-> n]
JsNumStr(n) == [k |-> "numstr", n |-> n]
JsText == [k |-> "text", n |-> 0]
JsUndef == [k |-> "undefined", n |-> 0]

NaN == [nan |-> TRUE, v |-> 0]

Number(x) ==
  IF x.k \in {"number", "numstr"} THEN [nan |-> FALSE, v |-> x.n] ELSE NaN

\* Number(x) || 1 : NaN and 0 are falsy
NumberOr1(x) ==
  LET q == Number(x) IN IF q.nan \/ q.v = 0 THEN 1 ELSE q.v

InvalidPrice(it) ==
  LET priceNum == Number(it.price) IN priceNum.nan \/ priceNum.v < 0

NormalizeItem(it) ==
  [price |-> Number(it.price).v, quantity |-> NumberOr1(it.quantity)]

NormalizedItems(items) == [i \in 1..Len(items) |-> NormalizeItem(items[i])]

AnyInvalidPrice(items) == \E i \in 1..Len(items) : InvalidPrice(items[i])

(***************************************************************************)
(* Request inputs.                                                         *)
(***************************************************************************)
ItemA == [price |-> JsNum(100), quantity |-> JsNum(2)]
ItemNeg == [price |-> JsNum(-1), quantity |-> JsNumStr(1)]
ItemNaN == [price |-> JsText, quantity |-> JsUndef]
ItemNegQty == [price |-> JsNumStr(50), quantity |-> JsNum(-1)]

RawItems == {ItemA, ItemNeg, ItemNaN}

SeqsUpTo(S, n) == UNION {[1..m -> S] : m \in 0..n}

Array(l) == [k |-> "array", v |-> l]

\* req.body.items: absent, not an array, or an array of raw items
ItemsInputs ==
  {[k |-> "undefined", v |-> <<>>], [k |-> "notArray", v |-> <<>>]}
    \cup {Array(l) : l \in SeqsUpTo(RawItems, MaxItems)}

\* only the length is looked at: a missing items value passes
CartIsEmptyLengthOnly(items) == items.k = "array" /\ Len(items.v) = 0

\* !items || !Array.isArray(items) || items.length === 0
CartIsEmpty(items) == items.k # "array" \/ Len(items.v) = 0

Amounts == {180}

\* src: the three places a user id is looked for, req.body.userId,
\* req.userId and req.user
PlaceOrderRequest(src, items, amount, pm) ==
  [op |-> "placeOrder", src |-> src, items |-> items, amount |-> amount,
   paymentMethod |-> pm]

\* The requests of POST /order/place that are tried: no resolvable user;
\* every items value that is rejected, paying online or offline; a valid
\* list, for user u1 paying online and user u2 paying offline, through
\* every source of the user id; a valid list with a payment method that is
\* none of stripe, cod and none; a list with a negative quantity.
PlaceOrderRequests ==
  {PlaceOrderRequest(<<NoUser, NoUser, NoUser>>, items, amount, pm) :
     items \in {Array(<<ItemA>>), Array(<<ItemNeg>>), [k |-> "undefined", v |-> <<>>]},
     amount \in Amounts, pm \in {"stripe", "none"}}
    \cup {PlaceOrderRequest(<<u, NoUser, NoUser>>, items, amount, pm) :
            u \in Users, amount \in Amounts, pm \in {Undefined, "cod"},
            items \in {i \in ItemsInputs :
                        \/ i.k # "array" \/ Len(i.v) = 0
                        \/ \E j \in 1..Len(i.v) : i.v[j] # ItemA}}
    \cup {PlaceOrderRequest(src, Array(<<ItemA>>), amount, pm) :
            src \in {<<"u1", NoUser, NoUser>>, <<NoUser, NoUser, "u1">>,
                     <<"u1", "u2", NoUser>>},
            amount \in Amounts, pm \in {Undefined, "stripe"}}
    \cup {PlaceOrderRequest(src, Array(<<ItemA>>), amount, pm) :
            src \in {<<"u2", NoUser, NoUser>>, <<NoUser, "u2", NoUser>>},
            amount \in Amounts, pm \in {"cod", "none"}}
    \cup {PlaceOrderRequest(<<"u1", NoUser, NoUser>>, Array(<<ItemA>>), amount, "card") :
            amount \in Amounts}
    \cup {PlaceOrderRequest(<<"u2", NoUser, NoUser>>, Array(<<ItemNegQty>>), amount, "cod") :
            amount \in Amounts}

\* one accepted request for each payment method
AcceptedRequests ==
  {PlaceOrderRequest(<<"u1", NoUser, NoUser>>, Array(<<ItemA>>), 180, "stripe"),
   PlaceOrderRequest(<<"u2", NoUser, NoUser>>, Array(<<ItemA>>), 180, "cod"),
   PlaceOrderRequest(<<NoUser, "u2", NoUser>>, Array(<<ItemA>>), 180, "none")}

EmptyCart == [p \in {} |-> 0]
SomeCart == [p \in {"food1"} |-> 2]

(***************************************************************************)
(* Responses: res.status(...).json(...) / .send(...)                       *)
(***************************************************************************)
Body(success, message, order, session_url, received) ==
  [success |-> success, message |-> message, order |-> order,
   session_url |-> session_url, received |-> received]

Json(success, message) == Body(success, message, <<>>, 0, FALSE)

Response(status, body) == [status |-> status, body |-> body]

(***************************************************************************)
(* The order store: findByIdAndUpdate and findOne                          *)
(***************************************************************************)
\* the document with the fields of the update overwritten
Updated(o, upd) == [f \in DOMAIN o |-> IF f \in DOMAIN upd THEN upd[f] ELSE o[f]]

\* the write is refused when the order has been paid in the meantime
FindByIdAndUpdateUnlessPaid(os, id, upd) ==
  IF id \in DOMAIN os /\ ~os[id].payment
  THEN [os EXCEPT ![id] = Updated(os[id], upd)]
  ELSE os

\* orderModel.findByIdAndUpdate(id, upd): no document with that id, no change
FindByIdAndUpdate(os, id, upd) ==
  IF id \in DOMAIN os THEN [os EXCEPT ![id] = Updated(os[id], upd)] ELSE os

\* the first unpaid order, whatever its session identifier
FindOneUnpaid(os, sessionId) ==
  LET m == {i \in DOMAIN os : ~os[i].payment}
  IN IF m = {} THEN 0 ELSE CHOOSE i \in m : \A j \in m : i <= j

\* orderModel.findOne({ stripeSessionId }): the first match, 0 for null
FindOneBySession(os, sessionId) ==
  LET m == {i \in DOMAIN os : os[i].stripeSessionId = sessionId}
  IN IF m = {} THEN 0 ELSE CHOOSE i \in m : \A j \in m : i <= j

OrderIdInputs == 0..MaxOrders

StoreOk(b) == [storeOk |-> b]

(***************************************************************************)
(* placeOrder                                                              *)
(***************************************************************************)
\* req.body.userId || req.userId || (req.user && (req.user.id || req.user._id))
ResolveUserId(src) ==
  IF src[1] # NoUser THEN src[1] ELSE IF src[2] # NoUser THEN src[2] ELSE src[3]

\* const { paymentMethod = 'stripe' } = req.body
DefaultPaymentMethod(pm) == IF pm = Undefined THEN "stripe" ELSE pm

InitialStatus(paymentMethod) ==
  IF paymentMethod = "stripe" THEN "awaiting_payment" ELSE "pending"

\* the values new Date() can take: the clock of the server is not tied to
\* the order in which the calls arrive
Times == {1, 2}

NewOrder(id, userId, normalizedItems, amount, paymentMethod, createdAt) ==
  [_id |-> id, userId |-> userId, items |-> normalizedItems, amount |-> amount,
   payment |-> FALSE, paymentMethod |-> paymentMethod,
   status |-> InitialStatus(paymentMethod), createdAt |-> createdAt,
   stripeSessionId |-> 0]

\* 'none' is forgotten
NoOnlinePaymentCodOnly(paymentMethod) == paymentMethod = "cod"

\* paymentMethod === 'cod' || paymentMethod === 'none'
NoOnlinePayment(paymentMethod) == paymentMethod \in {"cod", "none"}

\* every cart is emptied, not the one of the user
ClearCartOfAll(cs, userId) == [u \in DOMAIN cs |-> EmptyCart]

\* userModel.findByIdAndUpdate(userId, { cartData: {} })
ClearCart(cs, userId) == [cs EXCEPT ![userId] = EmptyCart]

\* the fee used when the environment gives none
DefaultDeliveryFee == 80

\* process.env.DELIVERY_FEE: unset, or a string
DeliveryFeeEnvs == {JsUndef, JsNumStr(0), JsNumStr(50)}

\* Number(process.env.DELIVERY_FEE) || 80 : NaN and 0 are falsy
DeliveryFee(env) ==
  LET q == Number(env) IN IF q.nan \/ q.v = 0 THEN DefaultDeliveryFee ELSE q.v

\* one gateway line item: the amount in the smallest currency unit
\* (Math.round is the identity on the whole prices of the model)
LineItem(name, price, quantity) ==
  [name |-> name, unit_amount |-> price * 100, quantity |-> quantity]

\* the line items of the order, then the delivery charges when the fee is > 0
LineItems(normalizedItems, fee) ==
  [i \in 1..Len(normalizedItems) |->
     LineItem("Item", normalizedItems[i].price, normalizedItems[i].quantity)]
    \o (IF fee > 0 THEN <<LineItem("Delivery Charges", fee, 1)>> ELSE <<>>)

\* the checkout session the gateway holds after sessions.create
NewSession(id, orderId, line_items) ==
  [id |-> id, metadata |-> [orderId |-> orderId], line_items |-> line_items]

\* session.url of the session object returned to placeOrder: the checkout
\* page of that session, or 0 when the gateway returns none
SessionUrl(id, withUrl) == IF withUrl THEN id ELSE 0

\* the session identifier is not written to the order
SetSessionIdSkipped(os, id, sessionId) == os

\* orderModel.findByIdAndUpdate(newOrder._id, { stripeSessionId: session.id })
SetSessionId(os, id, sessionId) ==
  FindByIdAndUpdate(os, id, [stripeSessionId |-> sessionId])

\* What the stores and the gateway do during one call of placeOrder:
\* newOrder.save() and the two findByIdAndUpdate succeed or throw, and
\* stripe.checkout.sessions.create returns a session with a url ("ok"),
\* a session without one ("nourl"), or throws ("fail"); and the values of
\* process.env.DELIVERY_FEE and of new Date() when the call reads them.
Outcomes ==
  [saveOk : BOOLEAN, cartOk : BOOLEAN, gateway : {"ok", "nourl", "fail"},
   persistOk : BOOLEAN, deliveryFeeEnv : DeliveryFeeEnvs, now : Times]

AllOk ==
  [saveOk |-> TRUE, cartOk |-> TRUE, gateway |-> "ok", persistOk |-> TRUE,
   deliveryFeeEnv |-> JsUndef, now |-> 1]

\* the order is removed again when the payment steps fail
PlaceOrderStripeRollback(newOrder, saved, f) ==
  IF f.gateway = "fail"
  THEN /\ orders' = orders
       /\ sessions' = sessions
       /\ res' = Response(500, Json("false", "gateway error"))
  ELSE LET session == NewSession(Len(sessions) + 1, newOrder._id,
                        LineItems(newOrder.items, DeliveryFee(f.deliveryFeeEnv)))
           url == SessionUrl(session.id, f.gateway = "ok")
       IN /\ sessions' = Append(sessions, session)
          /\ IF ~f.persistOk
             THEN /\ orders' = orders
                  /\ res' = Response(500, Json("false", "store error"))
             ELSE IF url = 0
             THEN /\ orders' = orders
                  /\ res' = Response(500,
                              Json("false", "Failed to create Stripe checkout session"))
             ELSE /\ orders' = SetSessionId(saved, newOrder._id, session.id)
                  /\ res' = Response(200, Body("true", "", <<>>, url, FALSE))

\* the stripe branch of placeOrder, after the order is saved and the cart step done
PlaceOrderStripe(newOrder, saved, f) ==
  IF f.gateway = "fail"
  THEN /\ orders' = saved
       /\ sessions' = sessions
       /\ res' = Response(500, Json("false", "gateway error"))
  ELSE LET session == NewSession(Len(sessions) + 1, newOrder._id,
                        LineItems(newOrder.items, DeliveryFee(f.deliveryFeeEnv)))
           url == SessionUrl(session.id, f.gateway = "ok")
       IN /\ sessions' = Append(sessions, session)
          /\ IF ~f.persistOk
             THEN /\ orders' = saved
                  /\ res' = Response(500, Json("false", "store error"))
             ELSE /\ orders' = SetSessionId(saved, newOrder._id, session.id)
                  /\ res' = IF url = 0
                            THEN Response(500,
                                   Json("false", "Failed to create Stripe checkout session"))
                            ELSE Response(200, Body("true", "", <<>>, url, FALSE))

PlaceOrderOn(r, f) ==
  LET userId == ResolveUserId(r.src)
      items == r.items
      amount == r.amount
      paymentMethod == DefaultPaymentMethod(r.paymentMethod)
  IN /\ req' = r
     /\ fault' = f
     /\ IF userId = NoUser
        THEN /\ res' = Response(401, Json("false", "Unauthorized: userId missing"))
             /\ UNCHANGED <<orders, carts, sessions>>
        ELSE IF CartIsEmpty(items)
        THEN /\ res' = Response(400, Json("false", "Cart is empty"))
             /\ UNCHANGED <<orders, carts, sessions>>
        ELSE IF AnyInvalidPrice(items.v)
        THEN \* the throw inside items.map lands in the catch of the handler
             /\ res' = Response(500, Json("false", "Invalid price for item"))
             /\ UNCHANGED <<orders, carts, sessions>>
        ELSE IF ~f.saveOk
        THEN /\ res' = Response(500, Json("false", "store error"))
             /\ UNCHANGED <<orders, carts, sessions>>
        ELSE LET newOrder == NewOrder(Len(orders) + 1, userId,
                               NormalizedItems(items.v), amount, paymentMethod,
                               f.now)
                 saved == Append(orders, newOrder)
             IN /\ carts' = IF f.cartOk THEN ClearCart(carts, userId) ELSE carts
                /\ IF NoOnlinePayment(paymentMethod)
                   THEN /\ orders' = saved
                        /\ sessions' = sessions
                        /\ res' = Response(201,
                             Body("true", "Order placed (no online payment required).",
                                  <<newOrder>>, 0, FALSE))
                   ELSE PlaceOrderStripe(newOrder, saved, f)

\* the outcomes of the operations the call of r attempts: nothing is
\* attempted by a rejected request, nothing after a failed save, no gateway
\* call by an offline order, no write of the session after a failed
\* gateway; the delivery fee is read only on the way to the gateway; the
\* time of the call is varied by PlaceOrderAt alone
OutcomesOf(r) ==
  IF \/ ResolveUserId(r.src) = NoUser
     \/ CartIsEmpty(r.items)
     \/ AnyInvalidPrice(r.items.v)
  THEN {AllOk}
  ELSE IF r.paymentMethod \in {"cod", "none"}
  THEN {f \in Outcomes : /\ f.gateway = "ok" /\ f.persistOk
                         /\ f.saveOk \/ f.cartOk
                         /\ f.deliveryFeeEnv = JsUndef
                         /\ f.now = 1}
  ELSE {f \in Outcomes :
          /\ f.now = 1
          /\ f.saveOk \/ (f.cartOk /\ f.gateway = "ok" /\ f.persistOk)
          /\ f.gateway # "fail" \/ f.persistOk
          /\ (f.saveOk /\ f.gateway # "fail") \/ f.deliveryFeeEnv = JsUndef}

PlaceOrder ==
  /\ Len(orders) < MaxOrders
  /\ \E r \in PlaceOrderRequests : \E f \in OutcomesOf(r) : PlaceOrderOn(r, f)

\* the calls of placeOrder that are accepted and during which nothing fails
PlaceOrderOk ==
  /\ Len(orders) < MaxOrders
  /\ \E r \in AcceptedRequests : PlaceOrderOn(r, AllOk)

\* the same calls, at any time of the clock
PlaceOrderAt ==
  /\ Len(orders) < MaxOrders
  /\ \E r \in AcceptedRequests, t \in Times :
       PlaceOrderOn(r, [AllOk EXCEPT !.now = t])

(***************************************************************************)
(* verifyOrder                                                             *)
(***************************************************************************)
SuccessInputs == {"true", "'true'", "false", Undefined}

\* success === 'true' || success === true
IsSuccess(success) == success \in {"true", "'true'"}

\* the update of the earlier verifyOrder, which set the payment flag only
VerifyPaidFlagOnly == [payment |-> TRUE]

VerifyPaid == [payment |-> TRUE, status |-> "confirmed"]

\* the cancellation takes the payment flag back
VerifyNotPaidUnpays == [status |-> "cancelled", payment |-> FALSE]

VerifyNotPaid == [status |-> "cancelled"]

VerifyOrderOn(orderId, success, storeOk) ==
  /\ req' = [op |-> "verifyOrder", orderId |-> orderId, success |-> success]
  /\ fault' = StoreOk(storeOk)
  /\ IF orderId = 0
     THEN /\ res' = Response(400, Json("false", "orderId required"))
          /\ UNCHANGED <<orders, carts, sessions>>
     ELSE IF ~storeOk
     THEN /\ res' = Response(500, Json("false", "Error"))
          /\ UNCHANGED <<orders, carts, sessions>>
     ELSE IF IsSuccess(success)
     THEN /\ orders' = FindByIdAndUpdate(orders, orderId, VerifyPaid)
          /\ res' = Response(200, Json("true", "Paid"))
          /\ UNCHANGED <<carts, sessions>>
     ELSE /\ orders' = FindByIdAndUpdate(orders, orderId, VerifyNotPaid)
          /\ res' = Response(200, Json("false", "Not Paid"))
          /\ UNCHANGED <<carts, sessions>>

VerifyOrder ==
  \E orderId \in OrderIdInputs, success \in SuccessInputs :
    \E storeOk \in IF orderId = 0 THEN {TRUE} ELSE BOOLEAN :
      VerifyOrderOn(orderId, success, storeOk)

(***************************************************************************)
(* stripeWebhookHandler                                                    *)
(***************************************************************************)
Completed == "checkout.session.completed"

\* event.type, event.data.object.id, event.data.object.metadata.orderId
\* (0 stands for an absent identifier)
Event(type, sessionId, orderId) ==
  [type |-> type, session |-> [id |-> sessionId, metadata |-> [orderId |-> orderId]]]

\* the payloads tried: a completed checkout with every pair of identifiers,
\* and one event of another type
Events ==
  {Event(Completed, sid, oid) : sid \in 0..MaxOrders, oid \in OrderIdInputs}
    \cup {Event("payment_intent.succeeded", 1, 1)}

\* process.env.STRIPE_WEBHOOK_SECRET (read at each call) and whether the
\* stripe-signature header matches the payload under it
Deliveries ==
  {[webhookSecret |-> Undefined, sigValid |-> FALSE],
   [webhookSecret |-> "whsec", sigValid |-> TRUE],
   [webhookSecret |-> "whsec", sigValid |-> FALSE]}

\* the payload is parsed without a check of the signature
VerificationSkipped(d) == FALSE

\* stripe.webhooks.constructEvent throws unless the signature matches
VerificationFails(d) == d.webhookSecret # Undefined /\ ~d.sigValid

\* the update of a handler that sets the payment flag only
WebhookPaidFlagOnly == [payment |-> TRUE]

WebhookPaid == [payment |-> TRUE, status |-> "confirmed"]

\* res.json({ received: true })
Received == Body("-", "", <<>>, 0, TRUE)

\* the handler reaches the order store: some identifier is present
StoreTouched(session) == session.metadata.orderId # 0 \/ session.id # 0

\* the session identifier is consulted first, the metadata after it
WebhookTargetSessionFirst(os, session) ==
  IF session.id # 0 /\ FindOneBySession(os, session.id) # 0
  THEN FindOneBySession(os, session.id)
  ELSE session.metadata.orderId

\* the order the event is resolved to, 0 for none: the metadata order
\* identifier, else the order found by the session identifier
WebhookTarget(os, session) ==
  IF session.metadata.orderId # 0 THEN session.metadata.orderId
  ELSE IF session.id # 0 THEN FindOneBySession(os, session.id)
  ELSE 0

\* the order store after the handler's writes for a completed checkout
WebhookWrite(os, session) ==
  FindByIdAndUpdate(os, WebhookTarget(os, session), WebhookPaid)

\* a failure of the order store is swallowed and the event acknowledged
WebhookCompletedSwallowed(session, storeOk) ==
  IF StoreTouched(session) /\ ~storeOk
  THEN /\ orders' = orders
       /\ res' = Response(200, Received)
  ELSE /\ orders' = WebhookWrite(orders, session)
       /\ res' = Response(200, Received)

\* storeOk: no operation on the order store (findOne, findByIdAndUpdate) throws
WebhookCompleted(session, storeOk) ==
  IF StoreTouched(session) /\ ~storeOk
  THEN /\ orders' = orders
       /\ res' = Response(500, Json("-", ""))
  ELSE /\ orders' = WebhookWrite(orders, session)
       /\ res' = Response(200, Received)

StripeWebhookHandlerOn(d, event, storeOk) ==
  /\ req' = [op |-> "stripeWebhookHandler", d |-> d, event |-> event]
  /\ fault' = StoreOk(storeOk)
  /\ UNCHANGED <<carts, sessions>>
  /\ IF VerificationFails(d)
     THEN /\ orders' = orders
          /\ res' = Response(400, Json("-", "Webhook Error"))
     ELSE IF event.type = Completed
     THEN WebhookCompleted(event.session, storeOk)
     ELSE /\ orders' = orders
          /\ res' = Response(200, Received)

\* the store can fail only in a call that reaches it
StripeWebhookHandler ==
  \E d \in Deliveries, event \in Events :
    \E storeOk \in IF /\ d.webhookSecret = Undefined \/ d.sigValid
                      /\ event.type = Completed
                      /\ StoreTouched(event.session)
                   THEN BOOLEAN ELSE {TRUE} :
      StripeWebhookHandlerOn(d, event, storeOk)

(***************************************************************************)
(* updateStatus                                                            *)
(***************************************************************************)
StatusInputs == {Undefined, "Delivered"}

\* the payment flag is reset together with the status
StatusUpdateResetsPayment(status) == [status |-> status, payment |-> FALSE]

\* { status }
StatusUpdate(status) == [status |-> status]

UpdateStatusOn(orderId, status, storeOk) ==
  /\ req' = [op |-> "updateStatus", orderId |-> orderId, status |-> status]
  /\ fault' = StoreOk(storeOk)
  /\ IF orderId = 0 \/ status = Undefined
     THEN /\ res' = Response(400, Json("false", "orderId and status required"))
          /\ UNCHANGED <<orders, carts, sessions>>
     ELSE IF ~storeOk
     THEN /\ res' = Response(500, Json("false", "Error"))
          /\ UNCHANGED <<orders, carts, sessions>>
     ELSE /\ orders' = FindByIdAndUpdate(orders, orderId, StatusUpdate(status))
          /\ res' = Response(200, Json("true", "Status Updated"))
          /\ UNCHANGED <<carts, sessions>>

UpdateStatus ==
  \E orderId \in OrderIdInputs, status \in StatusInputs :
    \E storeOk \in IF orderId = 0 \/ status = Undefined THEN {TRUE} ELSE BOOLEAN :
      UpdateStatusOn(orderId, status, storeOk)

(***************************************************************************)
(* userOrders and listOrders                                               *)
(***************************************************************************)
\* res.json({ success, data }) / res.status(...).json({ success, message })
Data(success, message, data) ==
  [success |-> success, message |-> message, data |-> data]

\* the places a user id is looked for, as in placeOrder
UserSources ==
  {<<u, NoUser, NoUser>> : u \in Users}
    \cup {<<NoUser, "u2", NoUser>>, <<NoUser, NoUser, "u1">>,
          <<NoUser, NoUser, NoUser>>}

\* the sequences that list every element of S once
Listings(S) ==
  {p \in [1..Cardinality(S) -> S] :
     \A i, j \in 1..Cardinality(S) : i # j => p[i] # p[j]}

\* the documents are listed oldest first
SortByCreatedAtAscending(S) ==
  {p \in Listings(S) :
     \A i \in 1..(Len(p) - 1) : p[i].createdAt <= p[i + 1].createdAt}

\* .sort({ createdAt: -1 }): the documents, newest first; the store may list
\* documents of equal createdAt in either order
SortByCreatedAt(S) ==
  {p \in Listings(S) :
     \A i \in 1..(Len(p) - 1) : p[i].createdAt >= p[i + 1].createdAt}

\* orderModel.find({ userId })
FindByUser(os, userId) == {os[i] : i \in {j \in DOMAIN os : os[j].userId = userId}}

\* orderModel.find({})
FindAll(os) == {os[i] : i \in DOMAIN os}

UserOrdersOn(src, storeOk) ==
  LET userId == ResolveUserId(src)
  IN /\ req' = [op |-> "userOrders", src |-> src]
     /\ fault' = StoreOk(storeOk)
     /\ UNCHANGED <<orders, carts, sessions>>
     /\ IF userId = NoUser
        THEN res' = Response(401, Data("false", "Unauthorized", <<>>))
        ELSE IF ~storeOk
        THEN res' = Response(500, Data("false", "Error fetching orders", <<>>))
        ELSE \E data \in SortByCreatedAt(FindByUser(orders, userId)) :
               res' = Response(200, Data("true", "", data))

UserOrders ==
  \E src \in UserSources :
    \E storeOk \in IF ResolveUserId(src) = NoUser THEN {TRUE} ELSE BOOLEAN :
      UserOrdersOn(src, storeOk)

ListOrdersOn(storeOk) ==
  /\ req' = [op |-> "listOrders"]
  /\ fault' = StoreOk(storeOk)
  /\ UNCHANGED <<orders, carts, sessions>>
  /\ IF ~storeOk
     THEN res' = Response(500, Data("false", "Error", <<>>))
     ELSE \E data \in SortByCreatedAt(FindAll(orders)) :
            res' = Response(200, Data("true", "", data))

ListOrders == \E storeOk \in BOOLEAN : ListOrdersOn(storeOk)

(***************************************************************************)
(* Requests of other shapes: no body, and webhook payloads that lack the   *)
(* fields of a gateway event                                               *)
(***************************************************************************)
\* An exception left the handler: the handler sent no response.  What the
\* caller sees is left to the framework: no response at all (status 0), or
\* the 500 of its error handler.
UncaughtStatuses == {0, 500}

Uncaught(status) ==
  [status |-> status, body |-> Json("-", "TypeError"), uncaught |-> TRUE]

Handlers ==
  {"placeOrder", "verifyOrder", "userOrders", "listOrders", "updateStatus"}

\* req.body is undefined.  placeOrder, userOrders and updateStatus read it
\* inside their try and answer 500 from the catch; listOrders does not read
\* it; verifyOrder destructures it before its try.
NoBodyOn(op) ==
  /\ req' = [op |-> op, body |-> Undefined]
  /\ fault' = StoreOk(TRUE)
  /\ UNCHANGED <<orders, carts, sessions>>
  /\ IF op = "verifyOrder"
     THEN \E status \in UncaughtStatuses : res' = Uncaught(status)
     ELSE IF op = "listOrders"
     THEN \E data \in SortByCreatedAt(FindAll(orders)) :
            res' = Response(200, Data("true", "", data))
     ELSE res' = Response(500, Json("false", "TypeError"))

NoBody == \E op \in Handlers : NoBodyOn(op)

\* payloads that are no gateway event: no body at all, an object without
\* type, a completed event without data
Payloads == {"undefined", "noType", "noData"}

\* Such a payload cannot carry a matching signature.  With a secret
\* configured constructEvent throws and the answer is 400.  Without one the
\* payload is taken as the event: event.type of no body and
\* event.data.object of a completed event without data throw before the try
\* of the handler; an object without type is acknowledged.
StripeWebhookHandlerOnPayload(d, payload) ==
  /\ req' = [op |-> "stripeWebhookHandler", d |-> d, payload |-> payload]
  /\ fault' = StoreOk(TRUE)
  /\ UNCHANGED <<orders, carts, sessions>>
  /\ IF VerificationFails(d)
     THEN res' = Response(400, Json("-", "Webhook Error"))
     ELSE IF payload = "noType"
     THEN res' = Response(200, Received)
     ELSE \E status \in UncaughtStatuses : res' = Uncaught(status)

StripeWebhookHandlerPayload ==
  \E d \in {e \in Deliveries : ~e.sigValid}, payload \in Payloads :
    StripeWebhookHandlerOnPayload(d, payload)

(***************************************************************************)
(* The system                                                              *)
(***************************************************************************)
Init ==
  /\ orders = <<>>
  /\ carts = [u \in Users |-> SomeCart]
  /\ sessions = <<>>
  /\ req = [op |-> "none"]
  /\ fault = StoreOk(TRUE)
  /\ res = Response(0, Json("-", ""))

\* every handler, the orders being placed without failure
Next == PlaceOrderOk \/ VerifyOrder \/ StripeWebhookHandler \/ UpdateStatus

Spec == Init /\ [][Next]_vars

\* placeOrder alone, with every request and every failure
NextPlaceOrder == PlaceOrder

SpecPlaceOrder == Init /\ [][NextPlaceOrder]_vars

\* the webhook handler on the orders that have been placed
NextWebhook == PlaceOrderOk \/ StripeWebhookHandler

SpecWebhook == Init /\ [][NextWebhook]_vars

\* verifyOrder on the orders that have been placed and updated
NextVerify == PlaceOrderOk \/ VerifyOrder \/ UpdateStatus

SpecVerify == Init /\ [][NextVerify]_vars

\* the two listings, on orders placed at any time of the clock
NextQuery == PlaceOrderAt \/ UserOrders \/ ListOrders

SpecQuery == Init /\ [][NextQuery]_vars

\* every handler, on requests of every shape
NextAny ==
  \/ PlaceOrderOk \/ VerifyOrder \/ StripeWebhookHandler \/ UpdateStatus
  \/ UserOrders \/ ListOrders \/ NoBody \/ StripeWebhookHandlerPayload

SpecAny == Init /\ [][NextAny]_vars

(***************************************************************************)
(* Properties.  In a step, req', fault' and res' are the request, the      *)
(* outcomes and the response of the call the step models; the unprimed     *)
(* variables are the stores before it and the call before it.              *)
(***************************************************************************)
IsPlaceOrder(r) == r.op = "placeOrder"
IsVerifyOrder(r) == r.op = "verifyOrder"
IsWebhook(r) == r.op = "stripeWebhookHandler"
IsUpdateStatus(r) == r.op = "updateStatus"

\* the user the request is placed for, NoUser when there is none
UserOf(r) ==
  IF r.src[1] # NoUser THEN r.src[1] ELSE IF r.src[2] # NoUser THEN r.src[2] ELSE r.src[3]

\* the raw value is a number or a numeric string, and not negative
NonNegative(x) == x.k \in {"number", "numstr"} /\ x.n >= 0

\* a placeOrder request with a user and a non-empty array of items, every
\* price of which is a non-negative number
WellFormed(r) ==
  /\ IsPlaceOrder(r)
  /\ UserOf(r) # NoUser
  /\ r.items.k = "array" /\ Len(r.items.v) > 0
  /\ \A i \in DOMAIN r.items.v : NonNegative(r.items.v[i].price)

\* a placeOrder request with a user and a non-empty array of items, some
\* price of which is negative or not a number
HasInvalidPrice(r) ==
  /\ IsPlaceOrder(r)
  /\ UserOf(r) # NoUser
  /\ r.items.k = "array" /\ Len(r.items.v) > 0
  /\ \E i \in DOMAIN r.items.v : ~NonNegative(r.items.v[i].price)

Online(r) == r.paymentMethod \in {Undefined, "stripe"}
Offline(r) == r.paymentMethod \in {"cod", "none"}

\* the orders that existed before the step are as they were
OthersKept == SubSeq(orders', 1, Len(orders)) = orders

\* C1 (as stated): in every reachable state every order with payment = true
\* has status = confirmed.
C1_PaidImpliesConfirmed ==
  \A i \in DOMAIN orders : orders[i].payment => orders[i].status = "confirmed"

\* a call that overwrites the status without touching the payment flag:
\* updateStatus, or verifyOrder with success other than true
StatusOverwriteStep ==
  \/ IsUpdateStatus(req')
  \/ IsVerifyOrder(req') /\ req'.success \notin {"true", "'true'"}

\* C1 (amended): an order is created unpaid; every step that sets payment to
\* true leaves the order confirmed; and a paid, confirmed order keeps both
\* through every step other than updateStatus and verifyOrder(orderId, false).
C1_PaidWriteConfirms ==
  [][/\ \A i \in DOMAIN orders' :
          (i \notin DOMAIN orders \/ ~orders[i].payment) /\ orders'[i].payment
            => i \in DOMAIN orders /\ orders'[i].status = "confirmed"
     /\ ~StatusOverwriteStep =>
          \A i \in DOMAIN orders :
            orders[i].payment /\ orders[i].status = "confirmed"
              => orders'[i].payment /\ orders'[i].status = "confirmed"]_vars

\* an order that was awaiting payment is paid and confirmed by the webhook
C1_Witness ==
  /\ IsWebhook(req)
  /\ \E i \in DOMAIN orders :
       /\ orders[i].payment /\ orders[i].status = "confirmed"
       /\ orders[i].paymentMethod = "stripe"
       /\ req.event.session.metadata.orderId = i

\* C2 (as stated): a placeOrder whose items contain a negative or non-numeric
\* price fails with InvalidInput (status 400) and changes no store.
C2_InvalidPriceIsInvalidInput ==
  [][HasInvalidPrice(req') =>
       /\ res'.status = 400
       /\ orders' = orders /\ carts' = carts /\ sessions' = sessions]_vars

\* C3: a placeOrder with the default or the stripe method that answers
\* success answers 200 with the url of a fresh checkout session, and the one
\* order it appended carries the identifier of that session, whose metadata
\* carries the identifier of the order.
C3_StripeSuccessCarriesSession ==
  [][IsPlaceOrder(req') /\ Online(req') /\ res'.body.success = "true" =>
       /\ res'.status = 200
       /\ Len(orders') = Len(orders) + 1 /\ OthersKept
       /\ Len(sessions') = Len(sessions) + 1
       /\ LET o == orders'[Len(orders')]
              s == sessions'[Len(sessions')]
          IN /\ res'.body.session_url # 0
             /\ res'.body.session_url = s.id
             /\ o.stripeSessionId = s.id
             /\ s.metadata.orderId = o._id
             /\ \A j \in DOMAIN sessions : sessions[j].id # s.id
             /\ \A j \in DOMAIN orders : orders[j]._id # o._id
             /\ o.userId = UserOf(req') /\ ~o.payment
             /\ o.status = "awaiting_payment"]_vars

C3_Witness ==
  /\ IsPlaceOrder(req) /\ req.paymentMethod = Undefined
  /\ res.status = 200 /\ res.body.session_url # 0
  /\ Len(orders) = 2
  /\ orders[2].stripeSessionId = sessions[Len(sessions)].id
  /\ orders[1].stripeSessionId # orders[2].stripeSessionId

\* C4: a well-formed placeOrder with method cod or none never creates a
\* checkout session; when the order is saved the answer is 201 with the new
\* order, which is pending, unpaid and without session identifier; when the
\* save fails the answer is 500 and no order is added.
C4_OfflineOrderIsPending ==
  [][WellFormed(req') /\ Offline(req') =>
       /\ sessions' = sessions
       /\ OthersKept
       /\ IF fault'.saveOk
          THEN /\ res'.status = 201 /\ res'.body.success = "true"
               /\ Len(orders') = Len(orders) + 1
               /\ res'.body.order = <<orders'[Len(orders')]>>
               /\ LET o == orders'[Len(orders')]
                  IN /\ o.status = "pending" /\ ~o.payment
                     /\ o.stripeSessionId = 0
                     /\ o.paymentMethod = req'.paymentMethod
                     /\ o.userId = UserOf(req')
          ELSE /\ res'.status = 500
               /\ orders' = orders /\ carts' = carts]_vars

C4_Witness ==
  /\ IsPlaceOrder(req) /\ req.paymentMethod = "none"
  /\ res.status = 201
  /\ Len(res.body.order) = 1 /\ res.body.order[1].status = "pending"
  /\ sessions = <<>>
  /\ Len(orders) = 1

\* the delivery passes verification: no secret is configured, or the
\* signature matches
SignatureAccepted(r) == r.d.webhookSecret = Undefined \/ r.d.sigValid

\* a delivery of a checkout completed event that passes verification
ValidCompleted(r) ==
  IsWebhook(r) /\ SignatureAccepted(r) /\ r.event.type = "checkout.session.completed"

\* the payload names an order or a session, so the handler reads or writes
\* the order store
NamesOrder(r) ==
  r.event.session.metadata.orderId # 0 \/ r.event.session.id # 0

\* C5: when a checkout completed event that passes verification has been
\* delivered and acknowledged, delivering the same event again as the next
\* call leaves the order store as the first delivery left it, and is
\* acknowledged with {received: true} (with 500 when the store fails
\* during it).
C5_WebhookIdempotent ==
  [][ValidCompleted(req) /\ res.status = 200
       /\ ValidCompleted(req') /\ req'.event = req.event
       => /\ orders' = orders
          /\ IF fault'.storeOk
             THEN res'.status = 200 /\ res'.body.received
             ELSE res'.status = 500 /\ ~res'.body.received]_vars

\* a completed event without metadata was acknowledged, and the order found
\* by its session identifier is paid and confirmed
C5_Witness ==
  /\ ValidCompleted(req) /\ res.status = 200 /\ res.body.received
  /\ req.event.session.metadata.orderId = 0
  /\ \E i \in DOMAIN orders :
       /\ orders[i].stripeSessionId = req.event.session.id
       /\ orders[i].payment /\ orders[i].status = "confirmed"
  /\ \E i \in DOMAIN orders : ~orders[i].payment

C7_BadSignatureChangesNothing ==
  [][IsWebhook(req') /\ req'.d.webhookSecret # Undefined /\ ~req'.d.sigValid
       => orders' = orders /\ res'.status = 400]_vars

\* a forged completed event names an existing unpaid order
C7_Witness ==
  /\ IsWebhook(req) /\ req.d.webhookSecret # Undefined /\ ~req.d.sigValid
  /\ req.event.type = "checkout.session.completed"
  /\ req.event.session.metadata.orderId \in DOMAIN orders
  /\ ~orders[req.event.session.metadata.orderId].payment
  /\ orders[req.event.session.metadata.orderId].status = "awaiting_payment"
  /\ res.status = 400

\* verifyOrder(orderId, true) for an existing order
VerifyTrue(r) == IsVerifyOrder(r) /\ r.success \in {"true", "'true'"}

\* C8: verifyOrder(orderId, true) for an existing order leaves that order at
\* payment = true, status = confirmed and every other order as it was, and
\* the same call repeated right after it changes nothing (500 and no change
\* when the store fails).
C8_VerifyIdempotent ==
  [][VerifyTrue(req') /\ req'.orderId \in DOMAIN orders =>
       IF fault'.storeOk
       THEN /\ orders' = [orders EXCEPT ![req'.orderId].payment = TRUE,
                                        ![req'.orderId].status = "confirmed"]
            /\ res'.status = 200 /\ res'.body.success = "true"
            /\ VerifyTrue(req) /\ req.orderId = req'.orderId /\ res.status = 200
                 => orders' = orders
       ELSE orders' = orders /\ res'.status = 500]_vars

\* a cancelled order is verified as paid
C8_Witness ==
  /\ VerifyTrue(req) /\ req.orderId \in DOMAIN orders
  /\ res.status = 200
  /\ orders[req.orderId].payment /\ orders[req.orderId].status = "confirmed"
  /\ orders[req.orderId].paymentMethod = "cod"
  /\ Len(orders) = 2

\* the step is a placeOrder that added an order to the store
OrderCreated == IsPlaceOrder(req') /\ Len(orders') = Len(orders) + 1

\* C9 (as stated): after a placeOrder that created an order, the cart of
\* its user is the empty mapping.
C9_CartEmptyAfterOrder ==
  [][OrderCreated => DOMAIN carts'[UserOf(req')] = {}]_vars

\* C9 (amended): after a placeOrder that created an order, the cart of its
\* user is the empty mapping when the write that clears it succeeded, and
\* every cart is as before when that write failed; the carts of the other
\* users are never changed, and no call that creates no order changes a cart.
C9_CartClearedBestEffort ==
  [][IF OrderCreated
     THEN IF fault'.cartOk
          THEN /\ DOMAIN carts'[UserOf(req')] = {}
               /\ \A u \in DOMAIN carts \ {UserOf(req')} : carts'[u] = carts[u]
          ELSE carts' = carts
     ELSE carts' = carts]_vars

\* the order of a user is created, in either payment branch, and the cart
\* of the other user still holds its items
C9_Witness ==
  /\ IsPlaceOrder(req) /\ fault.cartOk
  /\ Len(orders) = 1 /\ res.status \in {200, 201}
  /\ DOMAIN carts[UserOf(req)] = {}
  /\ \E u \in DOMAIN carts : DOMAIN carts[u] # {}

\* C10: once placeOrder has saved the new order, the order is in the store,
\* unpaid, at the end of the call, whatever fails afterwards; a session
\* without url, a failed session creation and a failed write of the session
\* identifier are answered 500.
C10_OrderSurvivesFailures ==
  [][WellFormed(req') /\ fault'.saveOk =>
       /\ Len(orders') = Len(orders) + 1 /\ OthersKept
       /\ LET o == orders'[Len(orders')]
          IN /\ ~o.payment
             /\ o.userId = UserOf(req')
             /\ \A j \in DOMAIN orders : orders[j]._id # o._id
       /\ Online(req') /\ fault'.gateway = "nourl" /\ fault'.persistOk
            => /\ res'.status = 500
               /\ res'.body.message = "Failed to create Stripe checkout session"
       /\ Online(req') /\ (fault'.gateway = "fail" \/ ~fault'.persistOk)
            => res'.status = 500
       /\ Online(req') /\ fault'.gateway = "ok" /\ fault'.persistOk
            => res'.status = 200]_vars

\* the gateway returned a session without url: the call failed, the order
\* is stored with the identifier of that session, and the cart was not cleared
C10_Witness ==
  /\ IsPlaceOrder(req) /\ fault.saveOk /\ ~fault.cartOk
  /\ fault.gateway = "nourl"
  /\ res.status = 500
  /\ orders # <<>>
  /\ ~orders[Len(orders)].payment
  /\ orders[Len(orders)].stripeSessionId # 0

\* C12: placeOrder answers 401 exactly when no user id can be resolved, and
\* answers 400 when a user is resolved and items is missing, not an array or
\* empty; in both cases orders, carts and checkout sessions are unchanged.
C12_RejectedRequestChangesNothing ==
  [][IsPlaceOrder(req') =>
       /\ res'.status = 401 <=> UserOf(req') = NoUser
       /\ UserOf(req') = NoUser =>
            /\ res'.body.success = "false"
            /\ orders' = orders /\ carts' = carts /\ sessions' = sessions
       /\ UserOf(req') # NoUser
            /\ (req'.items.k # "array" \/ Len(req'.items.v) = 0) =>
            /\ res'.status = 400 /\ res'.body.success = "false"
            /\ orders' = orders /\ carts' = carts /\ sessions' = sessions]_vars

\* a request whose items is not an array is rejected while an order of an
\* earlier request is stored
C12_Witness ==
  /\ IsPlaceOrder(req) /\ UserOf(req) # NoUser
  /\ req.items.k = "notArray"
  /\ res.status = 400
  /\ Len(orders) = 1

\* C13: updateStatus with both fields present sets the status of the order
\* with that id to the supplied value, whatever the status was, and changes
\* no other field and no other order (500 and no change when the store
\* fails; no change when no order has that id); with a field absent it
\* answers 400 and changes no order.
C13_UpdateStatusOverwritesStatusOnly ==
  [][IsUpdateStatus(req') =>
       /\ carts' = carts /\ sessions' = sessions
       /\ IF req'.orderId = 0 \/ req'.status = "undefined"
          THEN res'.status = 400 /\ orders' = orders
          ELSE IF ~fault'.storeOk
          THEN res'.status = 500 /\ orders' = orders
          ELSE /\ res'.status = 200 /\ res'.body.success = "true"
               /\ Len(orders') = Len(orders)
               /\ \A i \in DOMAIN orders :
                    IF i = req'.orderId
                    THEN orders'[i] = [orders[i] EXCEPT !.status = req'.status]
                    ELSE orders'[i] = orders[i]]_vars

\* a paid, confirmed order has been set to Delivered and is still paid,
\* while the other order is untouched
C13_Witness ==
  /\ IsUpdateStatus(req) /\ res.status = 200
  /\ req.orderId \in DOMAIN orders
  /\ orders[req.orderId].status = "Delivered"
  /\ orders[req.orderId].payment
  /\ \E i \in DOMAIN orders : orders[i].status = "cancelled"

\* a call that writes a status other than confirmed to the order it names
RegressingWrite(r) ==
  \/ IsUpdateStatus(r) /\ r.orderId # 0 /\ r.status # "undefined"
  \/ IsVerifyOrder(r) /\ r.orderId # 0 /\ r.success \notin {"true", "'true'"}

\* C14: the last write wins.  An updateStatus or a verifyOrder(orderId, false)
\* that reaches the store after the order was confirmed overwrites the
\* status of the confirmed order without any check and leaves its payment
\* flag, so a confirmed order can end with a status other than confirmed.
C14_LastWriteWins ==
  [][RegressingWrite(req') /\ fault'.storeOk =>
       \A i \in DOMAIN orders :
         i = req'.orderId /\ orders[i].status = "confirmed" =>
           /\ orders'[i].status =
                IF IsUpdateStatus(req') THEN req'.status ELSE "cancelled"
           /\ orders'[i].status # "confirmed"
           /\ orders'[i].payment = orders[i].payment]_vars

\* an order confirmed by the webhook or by verifyOrder has afterwards been
\* written by updateStatus or verifyOrder(orderId, false): it is paid and
\* holds a status other than confirmed
C14_Witness ==
  /\ RegressingWrite(req) /\ res.status = 200
  /\ req.orderId \in DOMAIN orders
  /\ orders[req.orderId].payment
  /\ orders[req.orderId].paymentMethod = "stripe"
  /\ orders[req.orderId].status \in {"cancelled", "Delivered"}

\* the orders a completed event names: the one whose id is the metadata
\* order identifier when the metadata carries one, else those whose stored
\* session identifier is the session identifier of the event
NamedOrders(os, r) ==
  IF r.event.session.metadata.orderId # 0
  THEN {i \in DOMAIN os : i = r.event.session.metadata.orderId}
  ELSE IF r.event.session.id # 0
  THEN {i \in DOMAIN os : os[i].stripeSessionId = r.event.session.id}
  ELSE {}

\* C18: a delivery that passes verification changes at most one order.  For
\* a completed event it is the order named by the metadata when the
\* metadata is present, else the order with the session identifier of the
\* event; that order becomes paid and confirmed and every other order is
\* as before.  When no order is named, when the store fails, or when the
\* event is of another type, no order is changed.
C18_WebhookUpdatesNamedOrderOnly ==
  [][IsWebhook(req') /\ SignatureAccepted(req') =>
       /\ Len(orders') = Len(orders)
       /\ IF req'.event.type = "checkout.session.completed" /\ fault'.storeOk
          THEN /\ Cardinality(NamedOrders(orders, req')) <= 1
               /\ \A i \in DOMAIN orders :
                    IF i \in NamedOrders(orders, req')
                    THEN orders'[i] = [orders[i] EXCEPT !.payment = TRUE,
                                                        !.status = "confirmed"]
                    ELSE orders'[i] = orders[i]
          ELSE orders' = orders]_vars

\* the metadata names the first order and the session identifier is that
\* of the second: the first is paid, the second is not
C18_Witness ==
  /\ ValidCompleted(req) /\ res.status = 200
  /\ Len(orders) = 2
  /\ req.event.session.metadata.orderId = 1
  /\ req.event.session.id = orders[2].stripeSessionId
  /\ orders[2].stripeSessionId # 0
  /\ orders[1].payment /\ orders[1].status = "confirmed"
  /\ ~orders[2].payment /\ orders[2].status = "awaiting_payment"

\* C20: an order enters the store with payment = false, no order leaves the
\* store, and an order whose payment flag is true keeps it true through
\* every call of every handler.
C20_PaymentMonotonic ==
  [][/\ Len(orders') >= Len(orders)
     /\ \A i \in DOMAIN orders' :
          IF i \in DOMAIN orders
          THEN orders[i].payment => orders'[i].payment
          ELSE ~orders'[i].payment]_vars

\* verifyOrder(orderId, false) has been served for a paid order, which is
\* still paid
C20_Witness ==
  /\ IsVerifyOrder(req) /\ req.success = "false" /\ res.status = 200
  /\ req.orderId \in DOMAIN orders
  /\ orders[req.orderId].payment
  /\ orders[req.orderId].status = "cancelled"

\* C19 (as stated): a placeOrder that created an order asked the gateway
\* for a checkout session exactly when the order was created with status
\* awaiting_payment; an order created with status pending gets no checkout
\* session and no session identifier.
C19_SessionIffAwaitingPayment ==
  [][OrderCreated =>
       LET o == orders'[Len(orders')]
       IN /\ o.status \in {"awaiting_payment", "pending"}
          /\ o.status = "pending" =>
               sessions' = sessions /\ o.stripeSessionId = 0
          /\ o.status = "awaiting_payment" /\ fault'.gateway # "fail" =>
               Len(sessions') = Len(sessions) + 1]_vars

\* C16 (as stated): every line item of every stored order has a unit price
\* >= 0 and a quantity >= 1, whatever the caller sent.
C16_StoredItemsValidated ==
  \A i \in DOMAIN orders :
    \A j \in DOMAIN orders[i].items :
      orders[i].items[j].price >= 0 /\ orders[i].items[j].quantity >= 1

\* the delivery fee the environment configures: the default when unset
ConfiguredFee(env) == IF env.k = "undefined" THEN 80 ELSE env.n

\* C15 (as stated): the line items of a checkout session are one per item
\* of the order, in order, with amount = price x 100 and the quantity of the
\* item, followed by one delivery line item (amount = fee x 100, quantity 1)
\* when the configured delivery fee is > 0 and by none when it is 0.
C15_LineItems ==
  [][IsPlaceOrder(req') /\ Len(sessions') = Len(sessions) + 1 =>
       LET o == orders'[Len(orders')]
           li == sessions'[Len(sessions')].line_items
           fee == ConfiguredFee(fault'.deliveryFeeEnv)
       IN /\ Len(li) = Len(o.items) + (IF fee > 0 THEN 1 ELSE 0)
          /\ \A j \in DOMAIN o.items :
               /\ li[j].unit_amount = o.items[j].price * 100
               /\ li[j].quantity = o.items[j].quantity
          /\ fee > 0 =>
               /\ li[Len(li)].unit_amount = fee * 100
               /\ li[Len(li)].quantity = 1]_vars

IsUserOrders(r) == r.op = "userOrders"
IsListOrders(r) == r.op = "listOrders"

\* data lists every order of S once, and no other, newest first
ListsNewestFirst(data, S) ==
  /\ Len(data) = Cardinality(S)
  /\ {data[i] : i \in DOMAIN data} = S
  /\ \A i, j \in DOMAIN data : i < j => data[i].createdAt >= data[j].createdAt

\* C17: listOrders returns every stored order and userOrders the stored
\* orders of the resolved user and no other, each newest first; userOrders
\* without a resolvable user answers 401 with no orders; neither changes a
\* store (500 with no orders when the store fails).
C17_Listings ==
  [][(IsListOrders(req') \/ IsUserOrders(req')) =>
       /\ orders' = orders /\ carts' = carts /\ sessions' = sessions
       /\ IF IsUserOrders(req') /\ UserOf(req') = NoUser
          THEN res'.status = 401 /\ res'.body.data = <<>>
          ELSE IF ~fault'.storeOk
          THEN res'.status = 500 /\ res'.body.data = <<>>
          ELSE /\ res'.status = 200 /\ res'.body.success = "true"
               /\ ListsNewestFirst(res'.body.data,
                    {orders[i] : i \in {j \in DOMAIN orders :
                        IsUserOrders(req') => orders[j].userId = UserOf(req')}})]_vars

\* the older of two orders was placed last; listOrders lists the newer first
C17_Witness ==
  /\ IsListOrders(req) /\ res.status = 200
  /\ Len(orders) = 2 /\ Len(res.body.data) = 2
  /\ orders[1].createdAt > orders[2].createdAt
  /\ orders[1].userId # orders[2].userId
  /\ res.body.data[1] = orders[1]

\* C11 (as stated): every call of every handler, for every shape of the
\* request and every failure of a store or of the gateway, ends with a
\* response sent by the handler and never with an uncaught exception.
C11_EveryCallAnswered ==
  req.op # "none" =>
    /\ "uncaught" \notin DOMAIN res
    /\ res.status \in {200, 201, 400, 401, 500}

====
